---- MODULE Spec2Model ----
(***************************************************************************)
(* TaskConcept (src/server/concepts/task.ts) over a shared document store. *)
(*                                                                         *)
(* Every `await` on the store is one atomic step of the store; the local   *)
(* code that runs between two awaits is part of the step that resumes it   *)
(* (a Node.js request handler runs without preemption between awaits).     *)
(* Several requests are in progress at once: `calls` holds the handlers    *)
(* suspended at an await, `inflight` the store writes that offerHelp and   *)
(* retractHelp issue without awaiting them (task.ts:81, task.ts:101).      *)
(***************************************************************************)
EXTENDS Integers, Sequences, FiniteSets, Bags, TLC

\* ------------------------------------------------------------------ bounds
\* user ids in play
NumUsers == 3
\* requests admitted in one behaviour
MaxRequests == 3

\* ------------------------------------------------------- program constants
\* completionDate: null (task.ts:32) and completer: null (task.ts:33)
NullDate == 0
NullUser == 0

Users == 1..NumUsers
\* the ids createOne can assign in one behaviour, and one it never assigns
TaskIds == 1..(MaxRequests + 1)
\* the titles handed to create and to update
CreateTitles == {"Fix sink"}
UpdateTitles == {"new"}
\* the deadline handed to create where no operation reads deadlines, and the
\* deadlines handed to create where getTasks sorts by them
CreateDeadlines == {2}
SortedDeadlines == {1, 2}

NotFound == "NotFound"
NotAllowed == "NotAllowed"
Ok == "ok"

VARIABLES
  tasks,     \* the "tasks" collection: a function from the ids of stored tasks to TaskDoc
  nextId,    \* the next fresh _id createOne assigns
  clock,     \* the time the next new Date() returns; every reading is later than the one before
  calls,     \* bag of handlers suspended at an await: [op, user, id, pc, arr, date]
  inflight,  \* bag of issued, not yet applied, un-awaited writes: [id, assisters]
  last,      \* the most recent response: [op, user, id, keys, at, res]
  acked,     \* per task id, the users whose offerHelp has returned success
  started    \* the number of requests admitted so far

vars == <<tasks, nextId, clock, calls, inflight, last, acked, started>>

\* ---------------------------------------------------------- array helpers
\* ObjectId.toString(): the hex string of the id; a tagged copy of the id
toString(e) == <<"hex", e>>

\* arr.map((e) => e.toString())
mapToString(arr) == [i \in 1..Len(arr) |-> toString(arr[i])]

\* Array.prototype.includes
includes(arr, x) == \E i \in 1..Len(arr) : arr[i] = x

\* Array.prototype.indexOf, 0-based, -1 when absent
indexOf(arr, x) ==
  IF includes(arr, x) THEN (CHOOSE i \in 1..Len(arr) : arr[i] = x /\ \A j \in 1..(i - 1) : arr[j] # x) - 1
  ELSE -1

\* Array.prototype.push
push(arr, x) == Append(arr, x)

\* Array.prototype.splice(index, 1)
splice1(arr, index) == [i \in 1..(Len(arr) - 1) |-> IF i <= index THEN arr[i] ELSE arr[i + 1]]

\* ------------------------------------------------- the document collection
\* DocCollection.createOne: the inserted document
TaskDoc(requester, title, deadline) ==
  [requester |-> requester, title |-> title, deadline |-> deadline, assisters |-> <<>>, viewed |-> <<>>,
   completed |-> FALSE, completionDate |-> NullDate, completer |-> NullUser]

\* DocCollection.readOne({ _id }): the document, or null
exists(store, id) == id \in DOMAIN store

\* DocCollection.updateOne({ _id }, partial): overwrites the fields of `partial`
\* in the document with that id; no document is created when none matches
updateOne(store, id, partial) ==
  IF id \in DOMAIN store
  THEN [store EXCEPT ![id] = [k \in DOMAIN @ |-> IF k \in DOMAIN partial THEN partial[k] ELSE @[k]]]
  ELSE store

\* DocCollection.deleteOne({ _id })
deleteOne(store, id) == [i \in DOMAIN store \ {id} |-> store[i]]

\* DocCollection.createOne(doc)
createOne(store, id, doc) == (id :> doc) @@ store

\* ------------------------------------------------------- guard predicates
isRequester(store, requester, id) ==
  IF ~exists(store, id) THEN NotFound
  ELSE IF toString(store[id].requester) # toString(requester) THEN NotAllowed
  ELSE Ok

\* isNotRequester without the fetch check of lines 151-153
isNotRequesterNoFetchCheck(store, requester, id) ==
  IF exists(store, id) /\ toString(store[id].requester) = toString(requester) THEN NotAllowed
  ELSE Ok

\* isNotRequester with the comparison of line 154 inverted
isNotRequesterInverted(store, requester, id) ==
  IF ~exists(store, id) THEN NotFound
  ELSE IF toString(store[id].requester) # toString(requester) THEN NotAllowed
  ELSE Ok

isNotRequester(store, requester, id) ==
  IF ~exists(store, id) THEN NotFound
  ELSE IF toString(store[id].requester) = toString(requester) THEN NotAllowed
  ELSE Ok

isNotAssister(store, assister, id) ==
  IF ~exists(store, id) THEN NotFound
  ELSE IF includes(mapToString(store[id].assisters), toString(assister)) THEN NotAllowed
  ELSE Ok

\* isAssister with the negation of line 175 dropped
isAssisterNotNegated(store, assister, id) ==
  IF ~exists(store, id) THEN NotFound
  ELSE IF includes(mapToString(store[id].assisters), toString(assister)) THEN NotAllowed
  ELSE Ok

isAssister(store, assister, id) ==
  IF ~exists(store, id) THEN NotFound
  ELSE IF ~includes(mapToString(store[id].assisters), toString(assister)) THEN NotAllowed
  ELSE Ok

\* sanitizeUpdate: the keys update may not carry
prohibitedUpdates == {"requester"}

\* sanitizeUpdate with an empty denylist
sanitizeUpdateNothing(partial) == Ok

\* sanitizeUpdate that looks at the partial only when requester is its one key
sanitizeUpdateSoleKey(partial) ==
  IF DOMAIN partial \subseteq prohibitedUpdates /\ DOMAIN partial # {} THEN NotAllowed ELSE Ok

sanitizeUpdate(partial) ==
  IF \E key \in DOMAIN partial : key \in prohibitedUpdates THEN NotAllowed ELSE Ok

\* ------------------------------------------------------------ bookkeeping
Call(op, user, id, pc, arr, date) ==
  [op |-> op, user |-> user, id |-> id, pc |-> pc, arr |-> arr, date |-> date]

\* a response: what was called, the await it came back from, and the outcome
Response(op, user, id, keys, at, res) ==
  [op |-> op, user |-> user, id |-> id, keys |-> keys, at |-> at, res |-> res]

Write(id, assisters) == [id |-> id, assisters |-> assisters]

BagAdd(b, e) == b (+) SetToBag({e})
BagRemove(b, e) == b (-) SetToBag({e})

\* a behaviour admits MaxRequests requests
Admit == started < MaxRequests /\ started' = started + 1

\* the ids a request may name: every id assigned so far, and the next one, which no task has
KnownIds == 1..nextId

Init ==
  /\ tasks = <<>>
  /\ nextId = 1
  /\ clock = 1
  /\ calls = EmptyBag
  /\ inflight = EmptyBag
  /\ last = Response("none", NullUser, 0, {}, "none", "none")
  /\ acked = [id \in TaskIds |-> {}]
  /\ started = 0

\* --------------------------------------------------------------- inputs
\* the arrays handed to update: empty, one id, one id twice
Arrays == {<<>>} \cup {<<u>> : u \in Users} \cup {<<u, u>> : u \in Users}

\* the partial documents handed to update
UpdateInputs ==
  {[title |-> t] : t \in UpdateTitles}
    \cup {[assisters |-> a] : a \in Arrays}
    \cup {[completed |-> b] : b \in BOOLEAN}
    \cup {[requester |-> u] : u \in Users}
    \cup {[requester |-> u, title |-> t] : u \in Users, t \in UpdateTitles}

\* ------------------------------------------------------------------ create
\* a create that stores the requester as the first assister
createAssisted(requester, title, deadline) ==
  /\ Admit
  /\ tasks' = createOne(tasks, nextId, [TaskDoc(requester, title, deadline) EXCEPT !.assisters = <<requester>>])
  /\ nextId' = nextId + 1
  /\ last' = Response("create", requester, nextId, {}, "return", Ok)
  /\ UNCHANGED <<clock, calls, inflight, acked>>

\* lines 23-35: createOne, then readOne of the new document, return.
\* The read-back only fills the returned value; it writes nothing.
create(requester, title, deadline) ==
  /\ Admit
  /\ tasks' = createOne(tasks, nextId, TaskDoc(requester, title, deadline))
  /\ nextId' = nextId + 1
  /\ last' = Response("create", requester, nextId, {}, "return", Ok)
  /\ UNCHANGED <<clock, calls, inflight, acked>>

\* -------------------------------------------------------------- getTaskById
\* getTaskById without the null test of line 47
getTaskByIdNoCheck(id) ==
  /\ Admit
  /\ last' = Response("getTaskById", NullUser, id, {}, "readOne", Ok)
  /\ UNCHANGED <<tasks, nextId, clock, calls, inflight, acked>>

getTaskById(id) ==
  /\ Admit
  /\ last' = Response("getTaskById", NullUser, id, {}, "readOne", IF exists(tasks, id) THEN Ok ELSE NotFound)
  /\ UNCHANGED <<tasks, nextId, clock, calls, inflight, acked>>

\* ------------------------------------------------------------------ update
\* an update that writes the keys it may write before it refuses the others
updateWritesThenRefuses(id, partial) ==
  /\ Admit
  /\ IF sanitizeUpdate(partial) # Ok
     THEN /\ last' = Response("update", NullUser, id, DOMAIN partial, "sanitizeUpdate", sanitizeUpdate(partial))
          /\ tasks' = updateOne(tasks, id, [k \in DOMAIN partial \ prohibitedUpdates |-> partial[k]])
     ELSE /\ tasks' = updateOne(tasks, id, partial)
          /\ last' = Response("update", NullUser, id, DOMAIN partial, "return", Ok)
  /\ UNCHANGED <<nextId, clock, calls, inflight, acked>>

update(id, partial) ==
  /\ Admit
  /\ IF sanitizeUpdate(partial) # Ok
     THEN /\ last' = Response("update", NullUser, id, DOMAIN partial, "sanitizeUpdate", sanitizeUpdate(partial))
          /\ tasks' = tasks
     ELSE /\ tasks' = updateOne(tasks, id, partial)
          /\ last' = Response("update", NullUser, id, DOMAIN partial, "return", Ok)
  /\ UNCHANGED <<nextId, clock, calls, inflight, acked>>

\* ------------------------------------------------------------------ delete
delete(id) ==
  /\ Admit
  /\ tasks' = deleteOne(tasks, id)
  /\ last' = Response("delete", NullUser, id, {}, "return", Ok)
  /\ UNCHANGED <<nextId, clock, calls, inflight, acked>>

\* --------------------------------------------------------------- offerHelp
\* line 73: await this.isNotRequester(assister, _id)
offerHelp(assister, id) ==
  /\ Admit
  /\ IF isNotRequester(tasks, assister, id) # Ok
     THEN /\ last' = Response("offerHelp", assister, id, {}, "isNotRequester", isNotRequester(tasks, assister, id))
          /\ calls' = calls
     ELSE /\ calls' = BagAdd(calls, Call("offerHelp", assister, id, "isNotAssister", <<>>, NullDate))
          /\ last' = last
  /\ UNCHANGED <<tasks, nextId, clock, inflight, acked>>

\* line 74: await this.isNotAssister(assister, _id)
offerHelpGuard(c) ==
  /\ c.op = "offerHelp" /\ c.pc = "isNotAssister"
  /\ IF isNotAssister(tasks, c.user, c.id) # Ok
     THEN /\ last' = Response("offerHelp", c.user, c.id, {}, "isNotAssister", isNotAssister(tasks, c.user, c.id))
          /\ calls' = BagRemove(calls, c)
     ELSE /\ calls' = BagAdd(BagRemove(calls, c), [c EXCEPT !.pc = "readOne"])
          /\ last' = last
  /\ UNCHANGED <<tasks, nextId, clock, inflight, acked, started>>

\* lines 76-82: readOne, push, updateOne issued and not awaited, return
offerHelpWrite(c) ==
  /\ c.op = "offerHelp" /\ c.pc = "readOne"
  /\ calls' = BagRemove(calls, c)
  /\ IF ~exists(tasks, c.id)
     THEN /\ last' = Response("offerHelp", c.user, c.id, {}, "readOne", NotFound)
          /\ inflight' = inflight
          /\ acked' = acked
     ELSE /\ inflight' = BagAdd(inflight, Write(c.id, push(tasks[c.id].assisters, c.user)))
          /\ last' = Response("offerHelp", c.user, c.id, {}, "return", Ok)
          /\ acked' = [acked EXCEPT ![c.id] = @ \cup {c.user}]
  /\ UNCHANGED <<tasks, nextId, clock, started>>

\* the write as an add-to-set: the ids of the written array that the stored one lacks are appended
RECURSIVE addToSet(_, _)
addToSet(stored, arr) ==
  IF arr = <<>> THEN stored
  ELSE addToSet(IF includes(stored, Head(arr)) THEN stored ELSE Append(stored, Head(arr)), Tail(arr))

applyWriteAddToSet(w) ==
  /\ tasks' = IF exists(tasks, w.id)
              THEN updateOne(tasks, w.id, [assisters |-> addToSet(tasks[w.id].assisters, w.assisters)])
              ELSE tasks
  /\ inflight' = BagRemove(inflight, w)
  /\ UNCHANGED <<nextId, clock, calls, last, acked, started>>

\* the un-awaited write applied as an upsert: a missing task is inserted
applyWriteUpsert(w) ==
  /\ tasks' = IF exists(tasks, w.id)
              THEN updateOne(tasks, w.id, [assisters |-> w.assisters])
              ELSE createOne(tasks, w.id, [TaskDoc(NullUser, "", NullDate) EXCEPT !.assisters = w.assisters])
  /\ inflight' = BagRemove(inflight, w)
  /\ UNCHANGED <<nextId, clock, calls, last, acked, started>>

\* the store applies a write that was issued without await
applyWrite(w) ==
  /\ tasks' = updateOne(tasks, w.id, [assisters |-> w.assisters])
  /\ inflight' = BagRemove(inflight, w)
  /\ UNCHANGED <<nextId, clock, calls, last, acked, started>>

\* ------------------------------------------------------------- retractHelp
\* line 92: await this.isNotRequester(assister, _id)
retractHelp(assister, id) ==
  /\ Admit
  /\ IF isNotRequester(tasks, assister, id) # Ok
     THEN /\ last' = Response("retractHelp", assister, id, {}, "isNotRequester", isNotRequester(tasks, assister, id))
          /\ calls' = calls
     ELSE /\ calls' = BagAdd(calls, Call("retractHelp", assister, id, "isAssister", <<>>, NullDate))
          /\ last' = last
  /\ UNCHANGED <<tasks, nextId, clock, inflight, acked>>

\* line 93: await this.isAssister(assister, _id)
retractHelpGuard(c) ==
  /\ c.op = "retractHelp" /\ c.pc = "isAssister"
  /\ IF isAssister(tasks, c.user, c.id) # Ok
     THEN /\ last' = Response("retractHelp", c.user, c.id, {}, "isAssister", isAssister(tasks, c.user, c.id))
          /\ calls' = BagRemove(calls, c)
     ELSE /\ calls' = BagAdd(BagRemove(calls, c), [c EXCEPT !.pc = "readOne"])
          /\ last' = last
  /\ UNCHANGED <<tasks, nextId, clock, inflight, acked, started>>

\* lines 98-100: the array retractHelp writes back
retracted(assisters, assister) ==
  LET index == indexOf(mapToString(assisters), toString(assister))
  IN IF index # -1 THEN splice1(assisters, index) ELSE assisters

\* lines 95-102: readOne, splice, updateOne issued and not awaited, return
retractHelpWrite(c) ==
  /\ c.op = "retractHelp" /\ c.pc = "readOne"
  /\ calls' = BagRemove(calls, c)
  /\ IF ~exists(tasks, c.id)
     THEN /\ last' = Response("retractHelp", c.user, c.id, {}, "readOne", NotFound)
          /\ inflight' = inflight
     ELSE /\ inflight' = BagAdd(inflight, Write(c.id, retracted(tasks[c.id].assisters, c.user)))
          /\ last' = Response("retractHelp", c.user, c.id, {}, "return", Ok)
  /\ UNCHANGED <<tasks, nextId, clock, acked, started>>

\* ---------------------------------------------------------------- complete
\* lines 112-114: readOne, then updateOne is issued with new Date()
complete(id, assister) ==
  /\ Admit
  /\ IF ~exists(tasks, id)
     THEN /\ last' = Response("complete", assister, id, {}, "readOne", NotFound)
          /\ calls' = calls
          /\ clock' = clock
     ELSE /\ calls' = BagAdd(calls, Call("complete", assister, id, "updateOne", <<>>, clock))
          /\ last' = last
          /\ clock' = clock + 1
  /\ UNCHANGED <<tasks, nextId, inflight, acked>>

\* complete with a terminal-state guard: a completed task is left as it is
completeWriteOnce(c) ==
  /\ c.op = "complete" /\ c.pc = "updateOne"
  /\ tasks' = IF exists(tasks, c.id) /\ tasks[c.id].completed
              THEN tasks
              ELSE updateOne(tasks, c.id, [completed |-> TRUE, completionDate |-> c.date, completer |-> c.user])
  /\ calls' = BagRemove(calls, c)
  /\ last' = Response("complete", c.user, c.id, {}, "return", Ok)
  /\ UNCHANGED <<nextId, clock, inflight, acked, started>>

\* a complete whose write also stores an empty assisters array
completeWriteClearsAssisters(c) ==
  /\ c.op = "complete" /\ c.pc = "updateOne"
  /\ tasks' = updateOne(tasks, c.id, [completed |-> TRUE, completionDate |-> c.date,
                                      completer |-> c.user, assisters |-> <<>>])
  /\ calls' = BagRemove(calls, c)
  /\ last' = Response("complete", c.user, c.id, {}, "return", Ok)
  /\ UNCHANGED <<nextId, clock, inflight, acked, started>>

\* lines 114-115: the awaited updateOne is applied, return
completeWrite(c) ==
  /\ c.op = "complete" /\ c.pc = "updateOne"
  /\ tasks' = updateOne(tasks, c.id, [completed |-> TRUE, completionDate |-> c.date, completer |-> c.user])
  /\ calls' = BagRemove(calls, c)
  /\ last' = Response("complete", c.user, c.id, {}, "return", Ok)
  /\ UNCHANGED <<nextId, clock, inflight, acked, started>>

\* -------------------------------------------------------------------- view
\* view without the includes test of line 131: the viewer is pushed every time
viewNoCheck(viewer, id) ==
  /\ Admit
  /\ IF ~exists(tasks, id)
     THEN /\ last' = Response("view", viewer, id, {}, "readOne", NotFound)
          /\ calls' = calls
     ELSE /\ calls' = BagAdd(calls, Call("view", viewer, id, "updateOne", push(tasks[id].viewed, viewer), NullDate))
          /\ last' = last
  /\ UNCHANGED <<tasks, nextId, clock, inflight, acked>>

\* lines 125-133: readOne, includes, push, updateOne issued
view(viewer, id) ==
  /\ Admit
  /\ IF ~exists(tasks, id)
     THEN /\ last' = Response("view", viewer, id, {}, "readOne", NotFound)
          /\ calls' = calls
     ELSE IF ~includes(mapToString(tasks[id].viewed), toString(viewer))
     THEN /\ calls' = BagAdd(calls, Call("view", viewer, id, "updateOne", push(tasks[id].viewed, viewer), NullDate))
          /\ last' = last
     ELSE /\ last' = Response("view", viewer, id, {}, "includes", Ok)
          /\ calls' = calls
  /\ UNCHANGED <<tasks, nextId, clock, inflight, acked>>

\* a view whose write stores the viewer alone instead of the array it read
viewWriteOnlyViewer(c) ==
  /\ c.op = "view" /\ c.pc = "updateOne"
  /\ tasks' = updateOne(tasks, c.id, [viewed |-> <<c.user>>])
  /\ calls' = BagRemove(calls, c)
  /\ last' = Response("view", c.user, c.id, {}, "return", Ok)
  /\ UNCHANGED <<nextId, clock, inflight, acked, started>>

\* lines 133-136: the awaited updateOne is applied, return
viewWrite(c) ==
  /\ c.op = "view" /\ c.pc = "updateOne"
  /\ tasks' = updateOne(tasks, c.id, [viewed |-> c.arr])
  /\ calls' = BagRemove(calls, c)
  /\ last' = Response("view", c.user, c.id, {}, "return", Ok)
  /\ UNCHANGED <<nextId, clock, inflight, acked, started>>

\* ----------------------------------------------------------------- getTasks
\* DocCollection.readMany(query, { sort: { deadline: 1 } }): the ids of the
\* documents whose fields equal the query's, in every order that is
\* ascending in deadline (the order of equal deadlines is the store's choice)
readMany(store, query) ==
  LET found == {id \in DOMAIN store : \A k \in DOMAIN query : store[id][k] = query[k]}
  IN {s \in [1..Cardinality(found) -> found] :
        /\ \A i, j \in DOMAIN s : i # j => s[i] # s[j]
        /\ \A i, j \in DOMAIN s : i < j => store[s[i]].deadline <= store[s[j]].deadline}

\* lines 38-43
getTasks(store, query) == readMany(store, query)

\* the response of a query: the ids of the tasks returned, in order
Found(op, user, found) == [found |-> found] @@ Response(op, user, 0, {}, "return", Ok)

\* getTasksByRequester without completed: false in its query
getTasksByRequesterAll(requester) ==
  /\ Admit
  /\ \E found \in getTasks(tasks, [requester |-> requester]) :
       last' = Found("getTasksByRequester", requester, found)
  /\ UNCHANGED <<tasks, nextId, clock, calls, inflight, acked>>

\* lines 51-53
getTasksByRequester(requester) ==
  /\ Admit
  /\ \E found \in getTasks(tasks, [requester |-> requester, completed |-> FALSE]) :
       last' = Found("getTasksByRequester", requester, found)
  /\ UNCHANGED <<tasks, nextId, clock, calls, inflight, acked>>

\* ---------------------------------------------------- the guards, called alone
\* A route calls a guard before the operation it protects: one readOne, then
\* the answer. The response holds what the guard threw, or Ok.
callIsRequester(user, id) ==
  /\ Admit
  /\ last' = Response("isRequester", user, id, {}, "readOne", isRequester(tasks, user, id))
  /\ UNCHANGED <<tasks, nextId, clock, calls, inflight, acked>>

callIsNotRequester(user, id) ==
  /\ Admit
  /\ last' = Response("isNotRequester", user, id, {}, "readOne", isNotRequester(tasks, user, id))
  /\ UNCHANGED <<tasks, nextId, clock, calls, inflight, acked>>

callIsAssister(user, id) ==
  /\ Admit
  /\ last' = Response("isAssister", user, id, {}, "readOne", isAssister(tasks, user, id))
  /\ UNCHANGED <<tasks, nextId, clock, calls, inflight, acked>>

callIsNotAssister(user, id) ==
  /\ Admit
  /\ last' = Response("isNotAssister", user, id, {}, "readOne", isNotAssister(tasks, user, id))
  /\ UNCHANGED <<tasks, nextId, clock, calls, inflight, acked>>

\* ------------------------------------------------------------ specification
\* every operation but the raw update
Dedicated ==
  \/ \E u \in Users, t \in CreateTitles, d \in CreateDeadlines : create(u, t, d)
  \/ \E id \in KnownIds : getTaskById(id)
  \/ \E id \in KnownIds : delete(id)
  \/ \E u \in Users, id \in KnownIds : offerHelp(u, id)
  \/ \E c \in BagToSet(calls) : offerHelpGuard(c)
  \/ \E c \in BagToSet(calls) : offerHelpWrite(c)
  \/ \E w \in BagToSet(inflight) : applyWrite(w)
  \/ \E u \in Users, id \in KnownIds : retractHelp(u, id)
  \/ \E c \in BagToSet(calls) : retractHelpGuard(c)
  \/ \E c \in BagToSet(calls) : retractHelpWrite(c)
  \/ \E id \in KnownIds, a \in Users \cup {NullUser} : complete(id, a)
  \/ \E c \in BagToSet(calls) : completeWrite(c)
  \/ \E u \in Users, id \in KnownIds : view(u, id)
  \/ \E c \in BagToSet(calls) : viewWrite(c)

Next ==
  \/ Dedicated
  \/ \E id \in KnownIds, partial \in UpdateInputs : update(id, partial)

Spec == Init /\ [][Next]_vars

\* the behaviours in which no request is a raw update
SpecDedicated == Init /\ [][Dedicated]_vars

\* the guards called alone, on the stores that create, update and delete build
Guards ==
  \/ \E u \in Users, t \in CreateTitles, d \in CreateDeadlines : create(u, t, d)
  \/ \E id \in KnownIds, partial \in UpdateInputs : update(id, partial)
  \/ \E id \in KnownIds : delete(id)
  \/ \E u \in Users, id \in KnownIds : callIsRequester(u, id)
  \/ \E u \in Users, id \in KnownIds : callIsNotRequester(u, id)
  \/ \E u \in Users, id \in KnownIds : callIsAssister(u, id)
  \/ \E u \in Users, id \in KnownIds : callIsNotAssister(u, id)

SpecGuards == Init /\ [][Guards]_vars

\* a store that holds one task, as create leaves it
InitStored ==
  \E u \in Users, t \in CreateTitles, d \in CreateDeadlines :
    /\ tasks = createOne(<<>>, 1, TaskDoc(u, t, d))
    /\ nextId = 2
    /\ clock = 1
    /\ calls = EmptyBag
    /\ inflight = EmptyBag
    /\ last = Response("create", u, 1, {}, "return", Ok)
    /\ acked = [id \in TaskIds |-> {}]
    /\ started = 0

\* the query by requester, on the stores that create, complete, update and
\* delete build from one stored task
Queries ==
  \/ \E u \in Users, t \in CreateTitles, d \in SortedDeadlines : create(u, t, d)
  \/ \E id \in KnownIds, a \in Users \cup {NullUser} : complete(id, a)
  \/ \E c \in BagToSet(calls) : completeWrite(c)
  \/ \E id \in KnownIds, partial \in UpdateInputs : update(id, partial)
  \/ \E id \in KnownIds : delete(id)
  \/ \E u \in Users : getTasksByRequester(u)

SpecQueries == InitStored /\ [][Queries]_vars

\* offerHelp, retractHelp, view and complete at once on one stored task
Overlapping ==
  \/ \E u \in Users, id \in KnownIds : offerHelp(u, id)
  \/ \E c \in BagToSet(calls) : offerHelpGuard(c)
  \/ \E c \in BagToSet(calls) : offerHelpWrite(c)
  \/ \E w \in BagToSet(inflight) : applyWrite(w)
  \/ \E u \in Users, id \in KnownIds : retractHelp(u, id)
  \/ \E c \in BagToSet(calls) : retractHelpGuard(c)
  \/ \E c \in BagToSet(calls) : retractHelpWrite(c)
  \/ \E id \in KnownIds, a \in Users \cup {NullUser} : complete(id, a)
  \/ \E c \in BagToSet(calls) : completeWrite(c)
  \/ \E u \in Users, id \in KnownIds : view(u, id)
  \/ \E c \in BagToSet(calls) : viewWrite(c)

SpecOverlapping == InitStored /\ [][Overlapping]_vars

\* ================================================================== claims
\* the handler c came back with outcome res
Returned(c, at, res) ==
  /\ calls' = BagRemove(calls, c)
  /\ last' = Response(c.op, c.user, c.id, {}, at, res)

\* no identifier occurs twice
NoDuplicates(arr) ==
  \A i, j \in 1..Len(arr) : i # j => toString(arr[i]) # toString(arr[j])

\* arr without every occurrence of x, order kept
RECURSIVE without(_, _)
without(arr, x) ==
  IF arr = <<>> THEN <<>>
  ELSE IF Head(arr) = x THEN without(Tail(arr), x)
  ELSE <<Head(arr)>> \o without(Tail(arr), x)

\* C1: when offerHelp(U,T) has returned its success acknowledgement and T is
\* stored, U is in the stored assisters of T, so that a following
\* offerHelp(U,T) is refused by isNotAssister with NotAllowed.
C1_OfferAcknowledgedIsStored ==
  (last.op = "offerHelp" /\ last.res = Ok /\ exists(tasks, last.id))
    => /\ includes(tasks[last.id].assisters, last.user)
       /\ isNotAssister(tasks, last.user, last.id) = NotAllowed

\* C2: a write issued by offerHelp or retractHelp replaces the stored array
\* by the array the handler computed from its own read: whatever another
\* handler stored in between is gone once the write is applied.
C2_WriteOverwrites ==
  [][\A w \in BagToSet(inflight) :
       (applyWrite(w) /\ exists(tasks, w.id)) => tasks'[w.id].assisters = w.assisters]_vars

\* C2 (witness): create and two offerHelp calls by two different users were the
\* only requests, both offers returned success, both writes are applied, and
\* the stored array holds one of the two users.
C2_LostUpdate ==
  \E id \in DOMAIN tasks : \E a, b \in acked[id] :
    /\ a # b
    /\ started = 3
    /\ calls = EmptyBag /\ inflight = EmptyBag
    /\ tasks[id].assisters = <<b>>

\* C3: no stored task holds an identifier twice in assisters.
C3_NoDuplicateAssisters ==
  \A id \in DOMAIN tasks : NoDuplicates(tasks[id].assisters)

\* C4: the requester of a stored task is not among its assisters.
C4_RequesterNotAssister ==
  \A id \in DOMAIN tasks : ~includes(mapToString(tasks[id].assisters), toString(tasks[id].requester))

\* C5: on a stored task, for a user other than the requester, retractHelp is
\* refused at isAssister exactly when the user is not in assisters; when it
\* returns success the user is no longer in the stored assisters and the other
\* assisters are stored in the order they had.
C5_Retract ==
  [][\A c \in BagToSet(calls) :
       /\ (retractHelpGuard(c) /\ exists(tasks, c.id))
            => (Returned(c, "isAssister", NotAllowed) <=> ~includes(tasks[c.id].assisters, c.user))
       /\ (retractHelpWrite(c) /\ exists(tasks, c.id))
            => /\ Returned(c, "return", Ok)
               /\ exists(tasks', c.id)
               /\ tasks'[c.id].assisters = without(tasks[c.id].assisters, c.user)]_vars

\* a step that admits a request and answers it at once with op's response for (u, id),
\* or suspends a new handler
Starts(op, u, id) ==
  /\ started' # started
  /\ calls' # calls \/ (last'.op = op /\ last'.user = u /\ last'.id = id)

\* the first read of a dedicated operation finds no task
StartsOnMissing(u, id) ==
  \/ Starts("offerHelp", u, id) /\ offerHelp(u, id)
  \/ Starts("retractHelp", u, id) /\ retractHelp(u, id)
  \/ Starts("view", u, id) /\ view(u, id)
  \/ Starts("complete", u, id) /\ complete(id, u)

\* a later read of offerHelp or retractHelp finds no task
ReadsMissing(c) ==
  /\ ~exists(tasks, c.id)
  /\ calls' # calls
  /\ offerHelpGuard(c) \/ offerHelpWrite(c) \/ retractHelpGuard(c) \/ retractHelpWrite(c)

\* the raw operations on an id no task has
DeletesMissing(id) == started' # started /\ last'.op = "delete" /\ delete(id)

UpdatesMissing(id, partial) ==
  started' # started /\ last'.op = "update" /\ last'.keys = DOMAIN partial /\ update(id, partial)

FailsNotFound == last'.res = NotFound /\ tasks' = tasks /\ inflight' = inflight

\* the request of u on id is answered NotFound at once; nothing is suspended or written
RefusedNotFound(u, id) ==
  /\ last'.res = NotFound /\ last'.user = u /\ last'.id = id
  /\ calls' = calls /\ tasks' = tasks /\ inflight' = inflight

\* C6 (as stated): update, delete, offerHelp, retractHelp, complete and view on
\* an id that no task has fail with NotFound and leave the store unchanged,
\* also when the task is deleted between a guard read and the own read.
C6_EveryOperationNotFound ==
  [][/\ \A id \in KnownIds \ DOMAIN tasks :
          /\ \A u \in Users \cup {NullUser} : StartsOnMissing(u, id) => RefusedNotFound(u, id)
          /\ DeletesMissing(id) => FailsNotFound
          /\ \A partial \in UpdateInputs : UpdatesMissing(id, partial) => FailsNotFound
     /\ \A c \in BagToSet(calls) : ReadsMissing(c) => FailsNotFound]_vars

\* C6 (amended): offerHelp, retractHelp, complete and view on an id that no
\* task has fail with NotFound and leave the store unchanged, also when the
\* task is deleted between a guard read and the own read; delete and update
\* never read the task: on such an id delete returns success, update returns
\* success or, with the key requester, NotAllowed, and the store is unchanged.
C6_ReadingOperationsNotFound ==
  [][/\ \A id \in KnownIds \ DOMAIN tasks :
          /\ \A u \in Users \cup {NullUser} : StartsOnMissing(u, id) => RefusedNotFound(u, id)
          /\ DeletesMissing(id) => (last'.res = Ok /\ tasks' = tasks /\ inflight' = inflight)
          /\ \A partial \in UpdateInputs :
               UpdatesMissing(id, partial)
                 => /\ last'.res = (IF "requester" \in DOMAIN partial THEN NotAllowed ELSE Ok)
                    /\ tasks' = tasks /\ inflight' = inflight
     /\ \A c \in BagToSet(calls) :
          ReadsMissing(c) => (FailsNotFound /\ Returned(c, c.pc, NotFound))]_vars

\* C6 (witness): offerHelp passed both guards on a stored task, the task was
\* deleted, and the handler's own read failed with NotFound.
C6_DeletedBeforeOwnRead ==
  /\ last.op = "offerHelp" /\ last.at = "readOne" /\ last.res = NotFound
  /\ ~exists(tasks, last.id)

\* C7: a stored task that is completed is completed after every step that
\* keeps it stored.
C7_CompletedMonotonic ==
  [][\A id \in DOMAIN tasks :
       (tasks[id].completed /\ exists(tasks', id)) => tasks'[id].completed]_vars

\* C8: create stores the requester it was given, and no step changes the
\* requester of a task that stays stored.
C8_RequesterNeverChanges ==
  [][/\ \A u \in Users, t \in CreateTitles, d \in CreateDeadlines :
          (nextId' # nextId /\ create(u, t, d)) => tasks'[nextId].requester = u
     /\ \A id \in DOMAIN tasks : exists(tasks', id) => tasks'[id].requester = tasks[id].requester]_vars

\* C8 (witness): a stored task on which an update, an offerHelp and its write
\* have acted.
C8_UpdatedAndOffered ==
  \E id \in DOMAIN tasks : tasks[id].title = "new" /\ tasks[id].assisters # <<>> /\ acked[id] # {}

C10_RequesterCannotOffer ==
  [][\A id \in DOMAIN tasks :
       LET u == tasks[id].requester
       IN (started' # started /\ offerHelp(u, id))
         => /\ last' = Response("offerHelp", u, id, {}, "isNotRequester", NotAllowed)
            /\ calls' = calls /\ tasks' = tasks /\ inflight' = inflight]_vars

\* C10 (witness): the requester's offer was refused on a stored task that an
\* earlier operation had completed, viewed or offered help on.
C10_RefusedOnChangedTask ==
  /\ last.op = "offerHelp" /\ last.res = NotAllowed
  /\ exists(tasks, last.id)
  /\ last.user = tasks[last.id].requester
  /\ tasks[last.id].completed \/ tasks[last.id].assisters # <<>> \/ tasks[last.id].viewed # <<>>

\* C11: complete on a stored task is admitted whatever the task's completed
\* flag and whoever the completer is, and its one write sets completed,
\* a non-null completionDate and the completer of that call, also on a task
\* that is already completed; nothing else of the task changes.
C11_CompleteOverwrites ==
  [][/\ \A id \in DOMAIN tasks, a \in Users \cup {NullUser} :
          (started' # started /\ complete(id, a))
            => /\ calls' = BagAdd(calls, Call("complete", a, id, "updateOne", <<>>, clock))
               /\ clock # NullDate
               /\ tasks' = tasks
     /\ \A c \in BagToSet(calls) :
          (calls' # calls /\ completeWrite(c) /\ exists(tasks, c.id))
            => /\ Returned(c, "return", Ok)
               /\ tasks'[c.id] = [tasks[c.id] EXCEPT !.completed = TRUE,
                                                      !.completionDate = c.date,
                                                      !.completer = c.user]
               /\ c.date # NullDate]_vars

\* C11 (witness): a task was completed twice; it holds the date and the
\* completer of the second call, and that completer never offered help.
C11_CompletedTwice ==
  \E id \in DOMAIN tasks :
    /\ clock = 3 /\ calls = EmptyBag
    /\ tasks[id].completed /\ tasks[id].completionDate = 2
    /\ tasks[id].completer # NullUser
    /\ ~includes(tasks[id].assisters, tasks[id].completer)
    /\ last.op = "complete" /\ last.res = Ok /\ last.user = tasks[id].completer

\* the number of occurrences of x in an array
occurrences(arr, x) == Cardinality({i \in DOMAIN arr : arr[i] = x})

\* C12: without the raw update, no viewed array ever holds an identifier
\* twice, and whenever a view(U, T) has answered and T is stored, viewed(T)
\* holds U exactly once, however many times U has viewed T before.
C12_ViewIdempotent ==
  /\ \A id \in DOMAIN tasks : NoDuplicates(tasks[id].viewed)
  /\ (last.op = "view" /\ last.res = Ok /\ exists(tasks, last.id))
       => occurrences(tasks[last.id].viewed, last.user) = 1

\* C12 (witness): a second view by the same user found the user recorded
\* and wrote nothing; the user is in viewed once.
C12_ViewedAgain ==
  /\ last.op = "view" /\ last.at = "includes" /\ last.res = Ok
  /\ exists(tasks, last.id)
  /\ tasks[last.id].viewed = <<last.user>>

\* C13 (as stated): the write of a view keeps every identifier that viewed
\* held just before the write, also when views by different users overlap.
C13_ViewNeverRemoves ==
  [][\A c \in BagToSet(calls) :
       (calls' # calls /\ viewWrite(c) /\ exists(tasks, c.id))
         => \A i \in DOMAIN tasks[c.id].viewed :
              includes(tasks'[c.id].viewed, tasks[c.id].viewed[i])]_vars

\* C13 (amended): a view keeps every identifier it read. The array a view
\* is about to write is the array it read with the viewer appended, and its
\* write stores exactly that array; so nothing is removed when no other
\* write to viewed lands between the read and the write.
C13_ViewKeepsWhatItRead ==
  [][/\ \A id \in DOMAIN tasks, u \in Users :
          (started' # started /\ view(u, id))
            => /\ tasks' = tasks
               /\ \/ /\ calls' = calls
                     /\ occurrences(tasks[id].viewed, u) > 0
                  \/ calls' = BagAdd(calls, Call("view", u, id, "updateOne",
                                                 tasks[id].viewed \o <<u>>, NullDate))
     /\ \A c \in BagToSet(calls) :
          (calls' # calls /\ viewWrite(c) /\ exists(tasks, c.id))
            => /\ tasks'[c.id] = [tasks[c.id] EXCEPT !.viewed = c.arr]
               /\ c.arr[Len(c.arr)] = c.user
               /\ tasks[c.id].viewed = SubSeq(c.arr, 1, Len(c.arr) - 1)
                    => \A i \in DOMAIN tasks[c.id].viewed :
                         includes(tasks'[c.id].viewed, tasks[c.id].viewed[i])]_vars

\* C13 (witness): a second user's view read the first user's entry and
\* wrote it back with its own appended.
C13_SecondViewerAppended ==
  \E id \in DOMAIN tasks :
    /\ Len(tasks[id].viewed) = 2
    /\ tasks[id].viewed[1] # tasks[id].viewed[2]
    /\ last.op = "view" /\ last.at = "return" /\ last.id = id
    /\ last.user = tasks[id].viewed[2]

\* C14: delete answers with success whether or not the task is stored and
\* whoever asks, and the task is absent from then on; a getTaskById answers
\* NotFound exactly when the task is absent, so it fails for a deleted task.
C14_DeleteThenNotFound ==
  /\ last.op = "delete" => (last.res = Ok /\ ~exists(tasks, last.id))
  /\ last.op = "getTaskById" => (last.res = NotFound <=> ~exists(tasks, last.id))

\* C14 (witness): a task was created and deleted, and the getTaskById that
\* followed failed with NotFound.
C14_DeletedNotFound ==
  /\ last.op = "getTaskById" /\ last.res = NotFound
  /\ last.id < nextId /\ ~exists(tasks, last.id)
  /\ started = 3

\* what a guard answers on task id when its condition holds or not
guardAnswer(id, holds) ==
  IF id \notin DOMAIN tasks THEN NotFound
  ELSE IF holds THEN Ok ELSE NotAllowed

\* user is one of the assisters of the stored task id
assists(user, id) == \E i \in DOMAIN tasks[id].assisters : tasks[id].assisters[i] = user

\* C15: each guard answers NotFound on an absent task, otherwise NotAllowed
\* exactly when its condition is violated and returns normally when it
\* holds (isRequester: user is the requester; isNotRequester: user is not;
\* isAssister: user is among the assisters; isNotAssister: user is not);
\* no guard changes the store or starts a write.
C15_Guards ==
  [][\A u \in Users, id \in KnownIds :
       /\ (started' # started /\ last'.op = "isRequester" /\ callIsRequester(u, id))
            => /\ last'.res = guardAnswer(id, tasks[id].requester = u)
               /\ tasks' = tasks /\ inflight' = inflight /\ calls' = calls
       /\ (started' # started /\ last'.op = "isNotRequester" /\ callIsNotRequester(u, id))
            => /\ last'.res = guardAnswer(id, tasks[id].requester # u)
               /\ tasks' = tasks /\ inflight' = inflight /\ calls' = calls
       /\ (started' # started /\ last'.op = "isAssister" /\ callIsAssister(u, id))
            => /\ last'.res = guardAnswer(id, assists(u, id))
               /\ tasks' = tasks /\ inflight' = inflight /\ calls' = calls
       /\ (started' # started /\ last'.op = "isNotAssister" /\ callIsNotAssister(u, id))
            => /\ last'.res = guardAnswer(id, ~assists(u, id))
               /\ tasks' = tasks /\ inflight' = inflight /\ calls' = calls]_vars

\* C15 (witness): isAssister refused a user on a stored task whose
\* assisters hold somebody else.
C15_NotAnAssister ==
  /\ last.op = "isAssister" /\ last.res = NotAllowed
  /\ exists(tasks, last.id)
  /\ tasks[last.id].assisters # <<>>
  /\ ~assists(last.user, last.id)

\* C16: create stores one more task, under an id that no stored task has
\* and that was never assigned before, with the given requester, title and
\* deadline, empty assisters and viewed, completed false, completionDate
\* and completer null; every other stored task is as it was.
C16_Create ==
  [][\A u \in Users, t \in CreateTitles, d \in CreateDeadlines \cup SortedDeadlines :
       (started' # started /\ nextId' # nextId /\ create(u, t, d))
         => \E id \in DOMAIN tasks' \ DOMAIN tasks :
              /\ DOMAIN tasks' = DOMAIN tasks \cup {id}
              /\ id \notin 1..(nextId - 1)
              /\ tasks'[id] = [requester |-> u, title |-> t, deadline |-> d,
                               assisters |-> <<>>, viewed |-> <<>>, completed |-> FALSE,
                               completionDate |-> NullDate, completer |-> NullUser]
              /\ \A o \in DOMAIN tasks : tasks'[o] = tasks[o]
              /\ last' = Response("create", u, id, {}, "return", Ok)
              /\ inflight' = inflight /\ calls' = calls]_vars

\* C16 (witness): a second task was created next to a task that an update
\* had changed; the first keeps its change, the second is blank.
C16_SecondTask ==
  /\ last.op = "create" /\ last.id = 2
  /\ exists(tasks, 1) /\ exists(tasks, 2)
  /\ tasks[1].assisters # <<>>
  /\ tasks[2].assisters = <<>> /\ ~tasks[2].completed

\* the ids a query by requester R has to return
open(R) == {id \in DOMAIN tasks : tasks[id].requester = R /\ ~tasks[id].completed}

\* the answer lists exactly the ids of S, each once, ascending in deadline
listed(found, S) ==
  /\ {found[i] : i \in DOMAIN found} = S
  /\ Len(found) = Cardinality(S)
  /\ \A i, j \in DOMAIN found : i < j => tasks[found[i]].deadline <= tasks[found[j]].deadline

\* C17 (the answer): getTasksByRequester(R) returns exactly the stored tasks
\* of requester R that are not completed, ascending in deadline.
C17_OpenTasksByDeadline ==
  [][\A R \in Users :
       (started' # started /\ last'.op = "getTasksByRequester" /\ getTasksByRequester(R))
         => /\ listed(last'.found, open(R))
            /\ tasks' = tasks]_vars

\* C17: getTasksByRequester(R) returns exactly the stored tasks of
\* requester R that are not completed, ascending in deadline, and never a
\* task to which complete has been applied.
C17_ByRequester ==
  [][\A R \in Users :
       (started' # started /\ last'.op = "getTasksByRequester" /\ getTasksByRequester(R))
         => /\ listed(last'.found, open(R))
            /\ \A i \in DOMAIN last'.found :
                 tasks[last'.found[i]].completionDate = NullDate]_vars

\* the step answers a request: at once, or by the return of a suspended handler
Answers ==
  \/ started' # started /\ calls' = calls
  \/ BagCardinality(calls') < BagCardinality(calls)

\* the step writes nothing to the store and issues no write
WritesNothing == tasks' = tasks /\ inflight' = inflight

\* C18: a step that answers an offerHelp, retractHelp, complete, view or
\* update with NotFound or NotAllowed writes nothing, and so does every
\* earlier step of a handler (the step that admits it and suspends it, and
\* each guard it passes): only the step that answers Ok writes.
C18_FailedWritesNothing ==
  [][/\ (/\ Answers
         /\ last'.op \in {"offerHelp", "retractHelp", "complete", "view", "update"}
         /\ last'.res \in {NotFound, NotAllowed})
          => WritesNothing
     /\ (started' # started /\ calls' # calls) => WritesNothing
     /\ (/\ started' = started
         /\ calls' # calls
         /\ BagCardinality(calls') = BagCardinality(calls))
          => WritesNothing]_vars

\* C18 (witness): a retractHelp was refused while the write of another
\* user's offerHelp was still on its way to the stored task.
C18_RefusedBesideAWrite ==
  /\ last.op = "retractHelp" /\ last.res = NotAllowed
  /\ exists(tasks, last.id)
  /\ \E w \in BagToSet(inflight) : w.id = last.id /\ ~includes(w.assisters, last.user)

\* the fields of a task that complete sets
completion(t) == <<t.completed, t.completionDate, t.completer>>

\* C19: a step changes the assisters of a task only by applying the write
\* of an offerHelp or retractHelp, its viewed only by the write of a view,
\* its completed, completionDate and completer only by the write of a
\* complete; each such step leaves every other field of the task, and every
\* other task, as it was. So with an offerHelp or retractHelp, a view and a
\* complete under way on one task, no write undoes what another has stored.
C19_OwnFieldsOnly ==
  [][tasks' # tasks =>
     /\ DOMAIN tasks' = DOMAIN tasks
     /\ \A id \in DOMAIN tasks :
          /\ tasks'[id].assisters # tasks[id].assisters
               => /\ \E w \in BagToSet(inflight) : w.id = id /\ inflight' = BagRemove(inflight, w)
                  /\ tasks' = [tasks EXCEPT ![id].assisters = tasks'[id].assisters]
          /\ tasks'[id].viewed # tasks[id].viewed
               => /\ \E c \in BagToSet(calls) : c.op = "view" /\ c.id = id /\ calls' = BagRemove(calls, c)
                  /\ tasks' = [tasks EXCEPT ![id].viewed = tasks'[id].viewed]
          /\ completion(tasks'[id]) # completion(tasks[id])
               => /\ \E c \in BagToSet(calls) : c.op = "complete" /\ c.id = id /\ calls' = BagRemove(calls, c)
                  /\ tasks' = [tasks EXCEPT ![id].completed = TRUE,
                                            ![id].completionDate = tasks'[id].completionDate,
                                            ![id].completer = tasks'[id].completer]
          /\ tasks'[id].requester = tasks[id].requester
          /\ tasks'[id].title = tasks[id].title
          /\ tasks'[id].deadline = tasks[id].deadline]_vars

\* C19 (witness): an offerHelp, a view and a complete on the one stored
\* task have all been answered and all their writes applied; the task
\* holds the assister, the viewer and the completion together.
C19_AllThreeStored ==
  /\ started = 3 /\ calls = EmptyBag /\ inflight = EmptyBag
  /\ Len(tasks[1].assisters) = 1 /\ tasks[1].assisters[1] \in acked[1]
  /\ Len(tasks[1].viewed) = 1
  /\ tasks[1].completed /\ tasks[1].completionDate # NullDate

\* id was assigned to a task and the task is stored no more: it was deleted
deleted(id) == id \in 1..(nextId - 1) /\ ~exists(tasks, id)

\* C20: no step stores a task under the id of a deleted task again, be it
\* the write of a handler that was suspended when the task was deleted, an
\* un-awaited write of offerHelp or retractHelp applied after the delete,
\* or an operation started later; and a getTaskById on a deleted id
\* answers NotFound.
C20_DeletedStaysDeleted ==
  [][/\ \A id \in 1..(nextId - 1) : deleted(id) => ~exists(tasks', id)
     /\ (/\ started' # started /\ calls' = calls
         /\ last'.op = "getTaskById"
         /\ deleted(last'.id))
          => last'.res = NotFound]_vars

\* C20 (witness): a task was deleted while the un-awaited write of an
\* offerHelp on it was still on its way.
C20_WriteOutlivesTask ==
  \E w \in BagToSet(inflight) : deleted(w.id) /\ w.assisters # <<>>

====
